---- MODULE Spec2Model ----
(***************************************************************************)
(* Function-aware git diff: the unified-diff parser (diff_parser.py), the  *)
(* hunk-to-function combiner (function_aware_diff.py) and the descriptors  *)
(* of python_function_detector.py.                                         *)
(*                                                                         *)
(* Python strings are sequences of one-character strings, so startswith,   *)
(* strip, split and slicing are computed rather than assumed.              *)
(***************************************************************************)
EXTENDS Integers, Sequences, FiniteSets, TLC

VARIABLES
    pc,                 \* position of the call under study
    diff_text,          \* the raw diff handed to parse_diff_output
    file_changes,       \* List[FileChange] returned by parse_diff_output
    env,                \* per FileChange: what the repository holds for it
    enhanced_changes,   \* List[EnhancedFileChange] built by the caller's loop
    hunks,              \* List[DiffHunk] handed to _map_hunks_to_functions
    functions,          \* List[PythonFunction] returned by the detector
    function_changes,   \* List[FunctionChange] returned by the combiner
    line_numbers,       \* List[int] handed to find_functions_at_lines
    containing_functions \* List[PythonFunction] it returns

vars == <<pc, diff_text, file_changes, env, enhanced_changes,
          hunks, functions, function_changes, line_numbers,
          containing_functions>>

-----------------------------------------------------------------------------
(* Bounds of the model.                                                    *)

MaxHunks == 2          \* hunks per file
MaxHunkLines == 2      \* raw lines over all hunks of a file
MaxStart == 2          \* old_start / new_start of a hunk header
MaxLine == 3           \* last line of the new file a detected span may reach
MaxFuncs == 2          \* functions the detector returns for a file
MaxTextLines == 5      \* lines of a diff text handed to the parser
MaxFiles == 2          \* file sections of a diff handed to the pipeline

-----------------------------------------------------------------------------
(* Python str and list primitives on character sequences.                  *)

\* Optional[str] None; no class or function name is the empty string
None == <<>>

\* s[n:]
Drop(s, n) == SubSeq(s, n + 1, Len(s))

\* s.startswith(p)
StartsWith(s, p) == Len(s) >= Len(p) /\ SubSeq(s, 1, Len(p)) = p

\* s.endswith(p)
EndsWith(s, p) == Len(s) >= Len(p) /\ SubSeq(s, Len(s) - Len(p) + 1, Len(s)) = p

\* c in s, for a single character c
Contains(s, c) == \E i \in 1..Len(s) : s[i] = c

IsSpace(c) == c \in {" ", "\t", "\n", "\r"}

RECURSIVE LStrip(_)
LStrip(s) == IF s # <<>> /\ IsSpace(Head(s)) THEN LStrip(Tail(s)) ELSE s

RECURSIVE RStrip(_)
RStrip(s) ==
    IF s # <<>> /\ IsSpace(s[Len(s)]) THEN RStrip(SubSeq(s, 1, Len(s) - 1)) ELSE s

\* s.strip()
Strip(s) == RStrip(LStrip(s))

\* s.split(c)[0], for a single character c
RECURSIVE SplitHead(_, _)
SplitHead(s, c) ==
    IF s = <<>> \/ Head(s) = c THEN <<>> ELSE <<Head(s)>> \o SplitHead(Tail(s), c)

\* sorted(list(S)) for a set of integers
RECURSIVE Sorted(_)
Sorted(S) ==
    IF S = {} THEN <<>>
    ELSE LET m == CHOOSE x \in S : \A y \in S : x <= y
         IN  <<m>> \o Sorted(S \ {m})

\* list(range(a, b + 1))
RECURSIVE RangeList(_, _)
RangeList(a, b) == IF a > b THEN <<>> ELSE <<a>> \o RangeList(a + 1, b)

\* the elements of a list
Elems(s) == {s[i] : i \in 1..Len(s)}

-----------------------------------------------------------------------------
(* diff_parser.py: the unified-diff parser.                                *)

\* s.split(c), for a single character c
RECURSIVE Split(_, _)
Split(s, c) ==
    IF ~ Contains(s, c) THEN <<s>>
    ELSE LET head == SplitHead(s, c)
         IN  <<head>> \o Split(Drop(s, Len(head) + 1), c)

\* s.split()[-1] of a string that holds a word: its last whitespace-free run
RECURSIVE LastRun(_)
LastRun(s) ==
    IF s = <<>> \/ IsSpace(s[Len(s)]) THEN <<>>
    ELSE LastRun(SubSeq(s, 1, Len(s) - 1)) \o <<s[Len(s)]>>

LastWord(s) == LastRun(RStrip(s))

Digits == {"0", "1", "2", "3", "4", "5", "6", "7", "8", "9"}

DigitVal(c) ==
    CASE c = "0" -> 0 [] c = "1" -> 1 [] c = "2" -> 2 [] c = "3" -> 3 [] c = "4" -> 4
      [] c = "5" -> 5 [] c = "6" -> 6 [] c = "7" -> 7 [] c = "8" -> 8 [] c = "9" -> 9

\* int(s) of a string of decimal digits
RECURSIVE ToInt(_)
ToInt(s) ==
    IF s = <<>> THEN 0
    ELSE 10 * ToInt(SubSeq(s, 1, Len(s) - 1)) + DigitVal(s[Len(s)])

\* the longest prefix of s that \d+ can take: s up to its first non-digit
TakeDigits(s) ==
    LET stops == {i \in 1..Len(s) : s[i] \notin Digits}
    IN  IF stops = {} THEN s
        ELSE SubSeq(s, 1, (CHOOSE i \in stops : \A j \in stops : i <= j) - 1)

\* (\d+)(?:,(\d+))? at the head of s; an unmatched optional group is None
MatchStartCount(s) ==
    LET g1 == TakeDigits(s)
        r1 == Drop(s, Len(g1))
        g2 == IF StartsWith(r1, <<",">>) THEN TakeDigits(Drop(r1, 1)) ELSE <<>>
    IN  [ok |-> g1 # <<>>,
         start |-> g1,
         count |-> g2,
         rest |-> IF g2 # <<>> THEN Drop(r1, 1 + Len(g2)) ELSE r1]

\* re.match(r'^@@ -(\d+)(?:,(\d+))? \+(\d+)(?:,(\d+))? @@', line)
HunkHeaderMatch(line) ==
    LET old == MatchStartCount(Drop(line, 4))
        new == MatchStartCount(Drop(old.rest, 2))
    IN  [matched |-> /\ StartsWith(line, <<"@", "@", " ", "-">>)
                     /\ old.ok
                     /\ StartsWith(old.rest, <<" ", "+">>)
                     /\ new.ok
                     /\ StartsWith(new.rest, <<" ", "@", "@">>),
         group1 |-> old.start, group2 |-> old.count,
         group3 |-> new.start, group4 |-> new.count]

\* the loop body with new_start read from the old side of the header
ParseHunkLineOldStart(st, line) ==
    IF StartsWith(line, <<"@", "@">>) THEN
        LET match == HunkHeaderMatch(line)
        IN  IF match.matched THEN
                [hunks |-> st.hunks \o st.current_hunk,
                 current_hunk |->
                    <<[old_start |-> ToInt(match.group1),
                       old_count |-> IF match.group2 # None THEN ToInt(match.group2) ELSE 1,
                       new_start |-> ToInt(match.group1),
                       new_count |-> IF match.group4 # None THEN ToInt(match.group4) ELSE 1,
                       lines |-> <<>>]>>]
            ELSE st
    ELSE IF st.current_hunk # <<>> THEN
        [st EXCEPT !.current_hunk[1].lines = Append(@, line)]
    ELSE st

\* one iteration of the loop of _parse_hunks; current_hunk is a list of at
\* most one hunk, empty for None
ParseHunkLine(st, line) ==
    IF StartsWith(line, <<"@", "@">>) THEN
        LET match == HunkHeaderMatch(line)
        IN  IF match.matched THEN
                [hunks |-> st.hunks \o st.current_hunk,
                 current_hunk |->
                    <<[old_start |-> ToInt(match.group1),
                       old_count |-> IF match.group2 # None THEN ToInt(match.group2) ELSE 1,
                       new_start |-> ToInt(match.group3),
                       new_count |-> IF match.group4 # None THEN ToInt(match.group4) ELSE 1,
                       lines |-> <<>>]>>]
            ELSE st
    ELSE IF st.current_hunk # <<>> THEN
        [st EXCEPT !.current_hunk[1].lines = Append(@, line)]
    ELSE st

\* the loop with a malformed '@@' line closing the hunk that is open
RECURSIVE ParseHunkLinesClosing(_, _)
ParseHunkLinesClosing(st, lines) ==
    IF lines = <<>> THEN st
    ELSE LET line == Head(lines)
             next == IF StartsWith(line, <<"@", "@">>) /\ ~ HunkHeaderMatch(line).matched
                     THEN [hunks |-> st.hunks \o st.current_hunk, current_hunk |-> <<>>]
                     ELSE ParseHunkLine(st, line)
         IN  ParseHunkLinesClosing(next, Tail(lines))

RECURSIVE ParseHunkLines(_, _)
ParseHunkLines(st, lines) ==
    IF lines = <<>> THEN st
    ELSE ParseHunkLines(ParseHunkLine(st, Head(lines)), Tail(lines))

_parse_hunks(lines) ==
    LET st == ParseHunkLines([hunks |-> <<>>, current_hunk |-> <<>>], lines)
    IN  st.hunks \o st.current_hunk

\* re.match(r'^a/(.+) b/(.+)', line): both groups are greedy, so the split is
\* at the last ' b/' that leaves both groups non-empty
HeaderMatch(line) ==
    LET cuts == {k \in 4..Len(line) - 3 : SubSeq(line, k, k + 2) = <<" ", "b", "/">>}
        k == CHOOSE c \in cuts : \A d \in cuts : d <= c
        matched == StartsWith(line, <<"a", "/">>) /\ cuts # {}
    IN  [matched |-> matched,
         group1 |-> IF matched THEN SubSeq(line, 3, k - 1) ELSE <<>>,
         group2 |-> IF matched THEN SubSeq(line, k + 3, Len(line)) ELSE <<>>]

DefaultMode == <<"1", "0", "0", "6", "4", "4">>

\* the metadata loop without the break at the first '@@' line
RECURSIVE ParseMetadataNoBreak(_, _, _)
ParseMetadataNoBreak(fc, lines, i) ==
    IF i > Len(lines) THEN fc
    ELSE LET line == lines[i]
         IN  IF StartsWith(line, <<"n", "e", "w", " ", "f", "i", "l", "e", " ", "m", "o", "d", "e">>) THEN
                 ParseMetadataNoBreak([fc EXCEPT !.is_new_file = TRUE, !.new_mode = LastWord(line)],
                                      lines, i + 1)
             ELSE IF StartsWith(line, <<"d", "e", "l", "e", "t", "e", "d", " ", "f", "i", "l", "e", " ", "m", "o", "d", "e">>) THEN
                 ParseMetadataNoBreak([fc EXCEPT !.is_deleted_file = TRUE, !.old_mode = LastWord(line)],
                                      lines, i + 1)
             ELSE IF StartsWith(line, <<"o", "l", "d", " ", "m", "o", "d", "e">>) THEN
                 ParseMetadataNoBreak([fc EXCEPT !.old_mode = LastWord(line)], lines, i + 1)
             ELSE IF StartsWith(line, <<"n", "e", "w", " ", "m", "o", "d", "e">>) THEN
                 ParseMetadataNoBreak([fc EXCEPT !.new_mode = LastWord(line)], lines, i + 1)
             ELSE IF StartsWith(line, <<"@", "@">>) THEN
                 ParseMetadataNoBreak([fc EXCEPT !.hunks = _parse_hunks(SubSeq(lines, i, Len(lines)))],
                                      lines, i + 1)
             ELSE ParseMetadataNoBreak(fc, lines, i + 1)

\* the metadata loop of _parse_file_section from lines[i] on
RECURSIVE ParseMetadata(_, _, _)
ParseMetadata(fc, lines, i) ==
    IF i > Len(lines) THEN fc
    ELSE LET line == lines[i]
         IN  IF StartsWith(line, <<"n", "e", "w", " ", "f", "i", "l", "e", " ", "m", "o", "d", "e">>) THEN
                 ParseMetadata([fc EXCEPT !.is_new_file = TRUE, !.new_mode = LastWord(line)],
                               lines, i + 1)
             ELSE IF StartsWith(line, <<"d", "e", "l", "e", "t", "e", "d", " ", "f", "i", "l", "e", " ", "m", "o", "d", "e">>) THEN
                 ParseMetadata([fc EXCEPT !.is_deleted_file = TRUE, !.old_mode = LastWord(line)],
                               lines, i + 1)
             ELSE IF StartsWith(line, <<"o", "l", "d", " ", "m", "o", "d", "e">>) THEN
                 ParseMetadata([fc EXCEPT !.old_mode = LastWord(line)], lines, i + 1)
             ELSE IF StartsWith(line, <<"n", "e", "w", " ", "m", "o", "d", "e">>) THEN
                 ParseMetadata([fc EXCEPT !.new_mode = LastWord(line)], lines, i + 1)
             ELSE IF StartsWith(line, <<"@", "@">>) THEN
                 [fc EXCEPT !.hunks = _parse_hunks(SubSeq(lines, i, Len(lines)))]
             ELSE ParseMetadata(fc, lines, i + 1)

\* _parse_file_section returning None for a section without hunks
ParseFileSectionSkippingEmpty(section) ==
    LET lines == Split(section, "\n")
        header_match == HeaderMatch(lines[1])
        fc == ParseMetadata([old_file |-> header_match.group1,
                             new_file |-> header_match.group2,
                             old_mode |-> DefaultMode,
                             new_mode |-> DefaultMode,
                             is_new_file |-> FALSE,
                             is_deleted_file |-> FALSE,
                             hunks |-> <<>>],
                            lines, 2)
    IN  IF ~ header_match.matched \/ fc.hunks = <<>> THEN <<>> ELSE <<fc>>

\* _parse_file_section; the result is a list of at most one FileChange,
\* empty for None
_parse_file_section(section) ==
    LET lines == Split(section, "\n")
        header_match == HeaderMatch(lines[1])
    IN  IF ~ header_match.matched THEN <<>>
        ELSE <<ParseMetadata([old_file |-> header_match.group1,
                              new_file |-> header_match.group2,
                              old_mode |-> DefaultMode,
                              new_mode |-> DefaultMode,
                              is_new_file |-> FALSE,
                              is_deleted_file |-> FALSE,
                              hunks |-> <<>>],
                             lines, 2)>>

DiffGitMarker == <<"d", "i", "f", "f", " ", "-", "-", "g", "i", "t", " ">>

\* the positions where r'^diff --git ' matches under re.MULTILINE
MarkerPositions(text) ==
    {p \in 1..Len(text) - 10 :
        /\ p = 1 \/ text[p - 1] = "\n"
        /\ SubSeq(text, p, p + 10) = DiffGitMarker}

\* re.split(r'^diff --git ', diff_text, flags=re.MULTILINE)[1:]
FileSections(text) ==
    LET ms == Sorted(MarkerPositions(text))
    IN  [k \in 1..Len(ms) |->
            SubSeq(text, ms[k] + 11, IF k < Len(ms) THEN ms[k + 1] - 1 ELSE Len(text))]

\* the loop of parse_diff_output with each FileChange put before the earlier
\* ones
RECURSIVE ParseSectionsReversed(_)
ParseSectionsReversed(file_sections) ==
    IF file_sections = <<>> THEN <<>>
    ELSE ParseSectionsReversed(Tail(file_sections)) \o _parse_file_section(Head(file_sections))

RECURSIVE ParseSections(_)
ParseSections(file_sections) ==
    IF file_sections = <<>> THEN <<>>
    ELSE _parse_file_section(Head(file_sections)) \o ParseSections(Tail(file_sections))

parse_diff_output(text) == ParseSections(FileSections(text))

\* sys.int_info.default_max_str_digits: int(s) raises ValueError for a
\* string of more digits
IntMaxStrDigits == 4300

IntRaises(s) == Len(s) > IntMaxStrDigits

\* one of the int() calls on the groups of a matched hunk header raises
HunkHeaderRaises(line) ==
    LET match == HunkHeaderMatch(line)
    IN  /\ StartsWith(line, <<"@", "@">>)
        /\ match.matched
        /\ \/ IntRaises(match.group1) \/ IntRaises(match.group2)
           \/ IntRaises(match.group3) \/ IntRaises(match.group4)

\* the loop of _parse_hunks visits every line, so it raises when one does
ParseHunksRaises(lines) == \E k \in 1..Len(lines) : HunkHeaderRaises(lines[k])

\* _parse_file_section raises when the _parse_hunks call it makes at the
\* first '@@' line does; nothing catches the exception
ParseFileSectionRaises(section) ==
    LET lines == Split(section, "\n")
        at == {i \in 2..Len(lines) : StartsWith(lines[i], <<"@", "@">>)}
    IN  /\ HeaderMatch(lines[1]).matched
        /\ at # {}
        /\ ParseHunksRaises(SubSeq(lines, CHOOSE i \in at : \A j \in at : i <= j,
                                   Len(lines)))

ParseDiffOutputRaises(text) ==
    LET file_sections == FileSections(text)
    IN  \E k \in 1..Len(file_sections) : ParseFileSectionRaises(file_sections[k])

-----------------------------------------------------------------------------
(* function_aware_diff.py: the per-hunk walk.                              *)

\* variant: a line without '+', '-' or ' ' prefix advances no counter
ExtractLineSkippingOther(st, line) ==
    IF StartsWith(line, <<"+">>) THEN
        [st EXCEPT !.added_lines = @ \cup {st.current_new_line},
                   !.current_new_line = @ + 1]
    ELSE IF StartsWith(line, <<"-">>) THEN
        [st EXCEPT !.removed_lines = @ \cup {st.current_old_line},
                   !.current_old_line = @ + 1]
    ELSE IF StartsWith(line, <<" ">>) THEN
        [st EXCEPT !.modified_lines = @ \cup {st.current_new_line},
                   !.current_new_line = @ + 1,
                   !.current_old_line = @ + 1]
    ELSE st

\* one iteration of the loop of _extract_changed_lines_detailed
ExtractLine(st, line) ==
    IF StartsWith(line, <<"+">>) THEN
        [st EXCEPT !.added_lines = @ \cup {st.current_new_line},
                   !.current_new_line = @ + 1]
    ELSE IF StartsWith(line, <<"-">>) THEN
        [st EXCEPT !.removed_lines = @ \cup {st.current_old_line},
                   !.current_old_line = @ + 1]
    ELSE IF StartsWith(line, <<" ">>) THEN
        [st EXCEPT !.modified_lines = @ \cup {st.current_new_line},
                   !.current_new_line = @ + 1,
                   !.current_old_line = @ + 1]
    ELSE
        [st EXCEPT !.current_new_line = @ + 1,
                   !.current_old_line = @ + 1]

RECURSIVE ExtractLoop(_, _)
ExtractLoop(st, lines) ==
    IF lines = <<>> THEN st ELSE ExtractLoop(ExtractLine(st, Head(lines)), Tail(lines))

\* the locals of _extract_changed_lines_detailed when its loop ends
ExtractWalk(hunk) ==
    ExtractLoop([added_lines |-> {}, removed_lines |-> {}, modified_lines |-> {},
                 current_new_line |-> hunk.new_start,
                 current_old_line |-> hunk.old_start],
                hunk.lines)

_extract_changed_lines_detailed(hunk) ==
    LET st == ExtractWalk(hunk)
    IN  <<st.added_lines, st.removed_lines, st.modified_lines>>

\* variant: 'deleted' is decided without looking at the context lines
DetermineChangeTypeIgnoringContext(function, added_lines, removed_lines, modified_lines) ==
    IF function.start_line \in added_lines THEN "added"
    ELSE IF removed_lines # {} /\ added_lines = {} THEN "deleted"
    ELSE "modified"

\* _determine_change_type_advanced; file_content is never read by the code
_determine_change_type_advanced(function, added_lines, removed_lines, modified_lines) ==
    IF function.start_line \in added_lines THEN "added"
    ELSE IF removed_lines # {} /\ added_lines = {} /\ modified_lines = {} THEN "deleted"
    ELSE IF added_lines # {} \/ removed_lines # {} THEN "modified"
    ELSE IF modified_lines # {} THEN "modified"
    ELSE "modified"

-----------------------------------------------------------------------------
(* function_aware_diff.py: the hunk-local fallback scanner.                *)

\* first loop of _detect_new_functions_in_hunk: (line number, content) of
\* every '+' line; only '+' and ' ' lines advance current_line
RECURSIVE AddedContent(_, _)
AddedContent(current_line, lines) ==
    IF lines = <<>> THEN <<>>
    ELSE IF StartsWith(Head(lines), <<"+">>) THEN
        <<[line_num |-> current_line, content |-> Drop(Head(lines), 1)]>>
            \o AddedContent(current_line + 1, Tail(lines))
    ELSE IF StartsWith(Head(lines), <<" ">>) THEN
        AddedContent(current_line + 1, Tail(lines))
    ELSE AddedContent(current_line, Tail(lines))

DefKw == <<"d", "e", "f", " ">>
AsyncDefKw == <<"a", "s", "y", "n", "c", " ", "d", "e", "f", " ">>

\* the test "this looks like a function definition"
LooksLikeDef(stripped) ==
    (StartsWith(stripped, DefKw) \/ StartsWith(stripped, AsyncDefKw))
        /\ Contains(stripped, ":")

\* variant: a line counts as covered only when it is the start line of an
\* existing function
IsNewByStartLine(line_num, existing_functions) ==
    ~ \E i \in 1..Len(existing_functions) :
        existing_functions[i].start_line = line_num

\* the loop over existing_functions that clears is_new
IsNew(line_num, existing_functions) ==
    ~ \E i \in 1..Len(existing_functions) :
        existing_functions[i].start_line <= line_num
            /\ line_num <= existing_functions[i].end_line

\* the PythonFunction built for an added definition line
NewFunc(line_num, stripped) ==
    LET func_part == IF StartsWith(stripped, AsyncDefKw)
                     THEN Drop(stripped, 10) ELSE Drop(stripped, 4)
        func_name == Strip(SplitHead(func_part, "("))
        estimated_end == line_num + 3
    IN  [name |-> func_name,
         start_line |-> line_num,
         end_line |-> estimated_end,
         start_byte |-> 0,
         end_byte |-> 0,
         class_name |-> None,
         is_method |-> FALSE,
         is_async |-> StartsWith(stripped, AsyncDefKw),
         decorator_names |-> <<>>]

RECURSIVE ScanAdded(_, _)
ScanAdded(added_content, existing_functions) ==
    IF added_content = <<>> THEN <<>>
    ELSE LET line_num == Head(added_content).line_num
             stripped == Strip(Head(added_content).content)
             rest == ScanAdded(Tail(added_content), existing_functions)
         IN  IF LooksLikeDef(stripped) /\ IsNew(line_num, existing_functions)
             THEN <<NewFunc(line_num, stripped)>> \o rest
             ELSE rest

_detect_new_functions_in_hunk(hunk, existing_functions) ==
    ScanAdded(AddedContent(hunk.new_start, hunk.lines), existing_functions)

-----------------------------------------------------------------------------
(* function_aware_diff.py: _map_hunks_to_functions.                        *)

\* the file-wide line sets: the union of the per-hunk sets over all hunks
RECURSIVE AllChangedLines(_)
AllChangedLines(hs) ==
    IF hs = <<>> THEN <<{}, {}, {}>>
    ELSE LET t == _extract_changed_lines_detailed(Head(hs))
             r == AllChangedLines(Tail(hs))
         IN  <<t[1] \cup r[1], t[2] \cup r[2], t[3] \cup r[3]>>

\* (function.name, function.class_name, function.start_line)
FunctionKey(function) == <<function.name, function.class_name, function.start_line>>

\* variant: the affected lines are not clipped to the function's span
CheckFunctionUnclipped(acc, function, all) ==
    LET function_lines == function.start_line .. function.end_line
        changed == all[1] \cup all[2] \cup all[3]
    IN  IF FunctionKey(function) \in acc.processed_functions THEN acc
        ELSE IF function_lines \cap changed = {} THEN acc
        ELSE [function_changes |-> Append(acc.function_changes,
                  [function |-> function,
                   change_type |-> _determine_change_type_advanced(function,
                       function_lines \cap all[1], function_lines \cap all[2],
                       function_lines \cap all[3]),
                   affected_lines |-> Sorted(changed)]),
              processed_functions |-> acc.processed_functions \cup {FunctionKey(function)}]

\* one iteration of "for function in functions"; acc holds function_changes
\* and processed_functions
CheckFunction(acc, function, all) ==
    LET function_lines == function.start_line .. function.end_line
        added_in_function == function_lines \cap all[1]
        removed_in_function == function_lines \cap all[2]
        modified_in_function == function_lines \cap all[3]
        all_affected_lines ==
            added_in_function \cup removed_in_function \cup modified_in_function
    IN  IF FunctionKey(function) \in acc.processed_functions THEN acc
        ELSE IF all_affected_lines = {} THEN acc
        ELSE [function_changes |-> Append(acc.function_changes,
                  [function |-> function,
                   change_type |-> _determine_change_type_advanced(function,
                       added_in_function, removed_in_function, modified_in_function),
                   affected_lines |-> Sorted(all_affected_lines)]),
              processed_functions |-> acc.processed_functions \cup {FunctionKey(function)}]

RECURSIVE CheckFunctions(_, _, _)
CheckFunctions(acc, fs, all) ==
    IF fs = <<>> THEN acc
    ELSE CheckFunctions(CheckFunction(acc, Head(fs), all), Tail(fs), all)

\* variant: a synthesized function is reported without consulting
\* processed_functions
AddNewFunctionNoDedup(acc, new_func) ==
    [function_changes |-> Append(acc.function_changes,
         [function |-> new_func,
          change_type |-> "added",
          affected_lines |-> RangeList(new_func.start_line, new_func.end_line)]),
     processed_functions |-> acc.processed_functions \cup {FunctionKey(new_func)}]

\* one iteration of "for new_func in new_functions"
AddNewFunction(acc, new_func) ==
    IF FunctionKey(new_func) \notin acc.processed_functions THEN
        [function_changes |-> Append(acc.function_changes,
             [function |-> new_func,
              change_type |-> "added",
              affected_lines |-> RangeList(new_func.start_line, new_func.end_line)]),
         processed_functions |-> acc.processed_functions \cup {FunctionKey(new_func)}]
    ELSE acc

RECURSIVE AddNewFunctions(_, _)
AddNewFunctions(acc, new_functions) ==
    IF new_functions = <<>> THEN acc
    ELSE AddNewFunctions(AddNewFunction(acc, Head(new_functions)), Tail(new_functions))

\* the second "for hunk in hunks"
RECURSIVE ScanHunks(_, _, _)
ScanHunks(acc, hs, fs) ==
    IF hs = <<>> THEN acc
    ELSE ScanHunks(AddNewFunctions(acc, _detect_new_functions_in_hunk(Head(hs), fs)),
                   Tail(hs), fs)

\* variant: the hunks are scanned for new definitions before the detected
\* functions are checked
MapHunksScanningFirst(hs, fs) ==
    LET start == [function_changes |-> <<>>, processed_functions |-> {}]
        scanned == ScanHunks(start, hs, fs)
    IN  CheckFunctions(scanned, fs, AllChangedLines(hs)).function_changes

_map_hunks_to_functions(hs, fs) ==
    LET start == [function_changes |-> <<>>, processed_functions |-> {}]
        checked == CheckFunctions(start, fs, AllChangedLines(hs))
    IN  ScanHunks(checked, hs, fs).function_changes

-----------------------------------------------------------------------------
(* Inputs of the combiner: the hunks of one file and the functions the     *)
(* detector found in its current content.                                  *)

\* raw hunk lines: "+x", "-x", " x", "" and "+def g(): pass"
PlusLine == <<"+", "x">>
MinusLine == <<"-", "x">>
ContextLine == <<" ", "x">>
EmptyLine == <<>>
PlusDefLine == <<"+", "d", "e", "f", " ", "g", "(", ")", ":", " ", "p", "a", "s", "s">>

HunkLineVocab == {PlusLine, MinusLine, ContextLine, EmptyLine, PlusDefLine}

LineSeqs(n) == UNION {[1..k -> HunkLineVocab] : k \in 0..n}

\* number of lines of ls that start with one of the prefixes
RECURSIVE CountPrefixed(_, _)
CountPrefixed(ls, prefixes) ==
    IF ls = <<>> THEN 0
    ELSE (IF \E p \in prefixes : StartsWith(Head(ls), <<p>>) THEN 1 ELSE 0)
            + CountPrefixed(Tail(ls), prefixes)

\* diff_parser.DiffHunk, with the counts a diff generator writes for ls
DiffHunk(old_start, new_start, ls) ==
    [old_start |-> old_start,
     old_count |-> CountPrefixed(ls, {"-", " "}),
     new_start |-> new_start,
     new_count |-> CountPrefixed(ls, {"+", " "}),
     lines |-> ls]

HunksUpTo(n) ==
    {DiffHunk(os, ns, ls) : os \in 1..MaxStart, ns \in 1..MaxStart, ls \in LineSeqs(n)}

\* lists of at most k hunks holding at most n raw lines in all
RECURSIVE HunkLists(_, _)
HunkLists(k, n) ==
    IF k = 0 THEN {<<>>}
    ELSE {<<>>} \cup
         UNION {{<<h>> \o r : r \in HunkLists(k - 1, n - Len(h.lines))} : h \in HunksUpTo(n)}

FuncNames == {<<"f">>, <<"g">>}
ClassNames == {None, <<"C">>}

\* python_function_detector.PythonFunction as _extract_function_info builds it
PythonFunction(name, class_name, start_line, end_line) ==
    [name |-> name,
     start_line |-> start_line,
     end_line |-> end_line,
     start_byte |-> 0,
     end_byte |-> 0,
     class_name |-> class_name,
     is_method |-> class_name # None,
     is_async |-> FALSE,
     decorator_names |-> <<>>]

Descriptors ==
    {PythonFunction(n, c, s, e) :
        n \in FuncNames, c \in ClassNames, s \in 1..MaxLine, e \in 1..MaxLine}

\* detect_functions returns the definitions of one syntax tree sorted by
\* start_line: each def statement starts on a line of its own, and two spans
\* are nested or disjoint
DetectorOrdered(fs) ==
    /\ \A i \in 1..Len(fs) : fs[i].start_line <= fs[i].end_line
    /\ \A i, j \in 1..Len(fs) :
          i < j => /\ fs[i].start_line < fs[j].start_line
                   /\ (fs[j].end_line <= fs[i].end_line
                          \/ fs[j].start_line > fs[i].end_line)

DetectedLists ==
    {fs \in UNION {[1..k -> Descriptors] : k \in 0..MaxFuncs} : DetectorOrdered(fs)}

-----------------------------------------------------------------------------
(* The combiner applied to one file.                                       *)

InitMap ==
    /\ pc = "ready"
    /\ hunks \in HunkLists(MaxHunks, MaxHunkLines)
    /\ functions \in DetectedLists
    /\ function_changes = <<>>
    /\ line_numbers = <<>>
    /\ containing_functions = <<>>
    /\ diff_text = <<>>
    /\ file_changes = <<>>
    /\ env = <<>>
    /\ enhanced_changes = <<>>

MapHunksToFunctions ==
    /\ pc = "ready"
    /\ function_changes' = _map_hunks_to_functions(hunks, functions)
    /\ pc' = "mapped"
    /\ UNCHANGED <<hunks, functions, diff_text, file_changes, env, enhanced_changes,
                   line_numbers, containing_functions>>

NextMap == MapHunksToFunctions

SpecMap == InitMap /\ [][NextMap]_vars

-----------------------------------------------------------------------------
(* python_function_detector.py: the walk over the syntax tree.             *)
(*                                                                         *)
(* A file content is the outcome of ast.parse and, when it parses, the     *)
(* list of its statements in source order, one per line, each with its    *)
(* indentation depth.  The body of a compound statement is the run of      *)
(* deeper lines below it: the children of a statement in the tree are the  *)
(* statements one level deeper that follow it before a line at its own     *)
(* level or above.  A compound statement without deeper lines has its body *)
(* on its own line ("def f(): pass").  Each decorator stands on a line of  *)
(* its own above its def.                                                  *)

\* a statement: kind "class", "def" or "async def" with a name, "if" for a
\* compound statement that defines nothing, "pass" for a simple statement
Stmt(indent, kind, name, decorator_list) ==
    [indent |-> indent, kind |-> kind, name |-> name, decorator_list |-> decorator_list]

\* a decorator expression: node is its ast class; for "Name" name is its id,
\* for "Attribute" its attr, and for "Call" func is the ast class of the
\* called expression and name its id or attr
Decorator(node, func, name) == [node |-> node, func |-> func, name |-> name]

\* the number of decorator lines above the statements 1..i
RECURSIVE DecoratorLines(_, _)
DecoratorLines(lines, i) ==
    IF i = 0 THEN 0 ELSE DecoratorLines(lines, i - 1) + Len(lines[i].decorator_list)

\* node.lineno of statement i: the line of its def, class or if keyword
Lineno(lines, i) == i + DecoratorLines(lines, i)

\* statement 0 is the Module, above every statement
IndentOf(lines, i) == IF i = 0 THEN -1 ELSE lines[i].indent

KindOf(lines, i) == IF i = 0 THEN "Module" ELSE lines[i].kind

\* the statements below statement i in the tree
Subtree(lines, i) ==
    {j \in i + 1..Len(lines) : \A k \in i + 1..j : lines[k].indent > IndentOf(lines, i)}

\* ast.iter_child_nodes(node), as far as statements go: the expressions
\* among the children (arguments, decorators, tests) hold no definitions
ChildNodes(lines, i) ==
    Sorted({j \in Subtree(lines, i) : lines[j].indent = IndentOf(lines, i) + 1})

\* node.end_lineno: the line of the last statement of the body
EndLineno(lines, i) ==
    LET below == Subtree(lines, i)
    IN  IF below = {} THEN Lineno(lines, i)
        ELSE Lineno(lines, CHOOSE j \in below : \A k \in below : k <= j)

\* _calculate_end_line: ast.parse sets end_lineno on every statement (Python
\* 3.8 and later), so the first return is taken
_calculate_end_line(lines, i) == EndLineno(lines, i)

PropertyAccessors ==
    {<<"s", "e", "t", "t", "e", "r">>,
     <<"g", "e", "t", "t", "e", "r">>,
     <<"d", "e", "l", "e", "t", "e", "r">>}

PropertyName == <<"p", "r", "o", "p", "e", "r", "t", "y">>

\* the attr_name tests of _extract_decorator_name
NormalizedAttr(attr_name) ==
    IF attr_name \in PropertyAccessors THEN PropertyName ELSE attr_name

\* _extract_decorator_name without the property test on a called attribute
ExtractDecoratorNameRawCall(decorator) ==
    IF decorator.node = "Name" THEN decorator.name
    ELSE IF decorator.node = "Attribute" THEN NormalizedAttr(decorator.name)
    ELSE IF decorator.node = "Call" THEN
        IF decorator.func \in {"Name", "Attribute"} THEN decorator.name ELSE None
    ELSE None

\* _extract_decorator_name; the result is None for a decorator that is no
\* name, attribute or call of one
_extract_decorator_name(decorator) ==
    IF decorator.node = "Name" THEN decorator.name
    ELSE IF decorator.node = "Attribute" THEN NormalizedAttr(decorator.name)
    ELSE IF decorator.node = "Call" THEN
        IF decorator.func = "Name" THEN decorator.name
        ELSE IF decorator.func = "Attribute" THEN NormalizedAttr(decorator.name)
        ELSE None
    ELSE None

\* the loop over node.decorator_list of _extract_function_info
RECURSIVE DecoratorNames(_)
DecoratorNames(decorator_list) ==
    IF decorator_list = <<>> THEN <<>>
    ELSE LET decorator_name == _extract_decorator_name(Head(decorator_list))
         IN  (IF decorator_name # None THEN <<decorator_name>> ELSE <<>>)
             \o DecoratorNames(Tail(decorator_list))

_extract_function_info(lines, i, class_name) ==
    [PythonFunction(lines[i].name, class_name, Lineno(lines, i), _calculate_end_line(lines, i))
        EXCEPT !.is_async = (lines[i].kind = "async def"),
               !.decorator_names = DecoratorNames(lines[i].decorator_list)]

\* _traverse_node on statement i, and its loops over the children
RECURSIVE _traverse_node(_, _, _, _)
RECURSIVE TraverseChildren(_, _, _, _)
TraverseChildren(lines, children, class_name, inside_function) ==
    IF children = <<>> THEN <<>>
    ELSE _traverse_node(lines, Head(children), class_name, inside_function)
         \o TraverseChildren(lines, Tail(children), class_name, inside_function)

\* the walk with the class name handed on into the body of a function
TraverseNodeInheriting(lines, i, class_name, inside_function) ==
    IF KindOf(lines, i) = "class" THEN
        TraverseChildren(lines, ChildNodes(lines, i), lines[i].name, inside_function)
    ELSE IF KindOf(lines, i) \in {"def", "async def"} THEN
        <<_extract_function_info(lines, i, class_name)>>
        \o TraverseChildren(lines, ChildNodes(lines, i), class_name, TRUE)
    ELSE
        TraverseChildren(lines, ChildNodes(lines, i), class_name, inside_function)

_traverse_node(lines, i, class_name, inside_function) ==
    IF KindOf(lines, i) = "class" THEN
        TraverseChildren(lines, ChildNodes(lines, i), lines[i].name, inside_function)
    ELSE IF KindOf(lines, i) \in {"def", "async def"} THEN
        <<_extract_function_info(lines, i, class_name)>>
        \o TraverseChildren(lines, ChildNodes(lines, i), None, TRUE)
    ELSE
        TraverseChildren(lines, ChildNodes(lines, i), class_name, inside_function)

\* functions.sort(key=lambda f: f.start_line): list.sort is stable
RECURSIVE InsertByStartLine(_, _)
InsertByStartLine(sorted, f) ==
    IF sorted = <<>> \/ sorted[Len(sorted)].start_line <= f.start_line
    THEN Append(sorted, f)
    ELSE Append(InsertByStartLine(SubSeq(sorted, 1, Len(sorted) - 1), f), sorted[Len(sorted)])

\* the sort with reverse=True
RECURSIVE SortByStartLineDescending(_)
SortByStartLineDescending(fs) ==
    IF fs = <<>> THEN <<>>
    ELSE LET rest == SortByStartLineDescending(SubSeq(fs, 1, Len(fs) - 1))
             f == fs[Len(fs)]
             before == SelectSeq(rest, LAMBDA g : g.start_line >= f.start_line)
             after == SelectSeq(rest, LAMBDA g : g.start_line < f.start_line)
         IN  before \o <<f>> \o after

RECURSIVE SortByStartLine(_)
SortByStartLine(fs) ==
    IF fs = <<>> THEN <<>>
    ELSE InsertByStartLine(SortByStartLine(SubSeq(fs, 1, Len(fs) - 1)), fs[Len(fs)])

\* detect_functions: ast.parse returns a tree, raises SyntaxError (caught: no
\* functions) or raises another error (ValueError, RecursionError,
\* MemoryError), which escapes
detect_functions(file_content) ==
    [exc |-> file_content.parse = "error",
     value |-> IF file_content.parse = "ok"
               THEN SortByStartLine(_traverse_node(file_content.lines, 0, None, FALSE))
               ELSE <<>>]

\* find_functions_at_lines: the loop over line_numbers for one function.
\* variant: neither the membership test nor the break, one append per
\* requested line inside the span
FindAtLinesEveryLine(containing, function, line_nums) ==
    containing \o
        [k \in 1..Cardinality({j \in 1..Len(line_nums) :
                                  /\ function.start_line <= line_nums[j]
                                  /\ line_nums[j] <= function.end_line})
            |-> function]

\* the first line_num with start_line <= line_num <= end_line appends the
\* function unless it is in the list already, and ends the loop
FindAtLines(containing, function, line_nums) ==
    IF /\ \E k \in 1..Len(line_nums) :
             /\ function.start_line <= line_nums[k]
             /\ line_nums[k] <= function.end_line
       /\ ~ \E j \in 1..Len(containing) : containing[j] = function
    THEN Append(containing, function)
    ELSE containing

\* "for function in functions"
RECURSIVE FindLoop(_, _, _)
FindLoop(containing, fs, line_nums) ==
    IF fs = <<>> THEN containing
    ELSE FindLoop(FindAtLines(containing, Head(fs), line_nums), Tail(fs), line_nums)

\* find_functions_at_lines: an error of detect_functions leaves it too
find_functions_at_lines(file_content, line_nums) ==
    LET detected == detect_functions(file_content)
    IN  [exc |-> detected.exc,
         functions |-> detected.value,
         value |-> IF detected.exc THEN <<>>
                   ELSE FindLoop(<<>>, detected.value, line_nums)]

-----------------------------------------------------------------------------
(* function_aware_diff.py: enhancing one FileChange.                       *)

\* variant: the suffix test reads the old path of the change
IsPythonFileByOldPath(enhanced) ==
    EndsWith(enhanced.original_change.old_file, <<".", "p", "y">>)

\* EnhancedFileChange.is_python_file, through file_path
is_python_file(enhanced) ==
    EndsWith(enhanced.original_change.new_file, <<".", "p", "y">>)


\* the body of the try statement of _enhance_file_change: exc tells whether
\* an exception left it, enhanced is the object as the assignments made so
\* far left it
TryEnhance(enhanced, change, file_env) ==
    IF ~ file_env.exists THEN [exc |-> FALSE, enhanced |-> enhanced]
    ELSE IF ~ file_env.readable THEN [exc |-> TRUE, enhanced |-> enhanced]
    ELSE LET detected == detect_functions(file_env.content)
             with_functions == [enhanced EXCEPT !.detected_functions = detected.value]
         IN  IF detected.exc THEN [exc |-> TRUE, enhanced |-> enhanced]
             ELSE IF file_env.mapping_error THEN [exc |-> TRUE, enhanced |-> with_functions]
             ELSE [exc |-> FALSE,
                   enhanced |-> [with_functions EXCEPT !.function_changes =
                       _map_hunks_to_functions(change.hunks, detected.value)]]

\* variant: the except clause lets the exception through
EnhanceFileChangeUncaught(change, file_env) ==
    LET enhanced == [original_change |-> change,
                     detected_functions |-> <<>>,
                     function_changes |-> <<>>]
        body == TryEnhance(enhanced, change, file_env)
    IN  IF ~ is_python_file(enhanced) THEN [raised |-> FALSE, value |-> enhanced]
        ELSE [raised |-> body.exc, value |-> body.enhanced]

\* _enhance_file_change: "except Exception: pass" swallows whatever the body
\* raised, so the call always returns
_enhance_file_change(change, file_env) ==
    LET enhanced == [original_change |-> change,
                     detected_functions |-> <<>>,
                     function_changes |-> <<>>]
        body == TryEnhance(enhanced, change, file_env)
    IN  IF ~ is_python_file(enhanced) THEN [raised |-> FALSE, value |-> enhanced]
        ELSE [raised |-> FALSE, value |-> body.enhanced]

-----------------------------------------------------------------------------
(* Diff texts and repository contents.                                     *)

\* "\n".join(lines)
RECURSIVE JoinLines(_)
JoinLines(lines) ==
    IF lines = <<>> THEN <<>>
    ELSE IF Len(lines) = 1 THEN lines[1]
    ELSE lines[1] \o <<"\n">> \o JoinLines(Tail(lines))

PyPath == <<"m", ".", "p", "y">>
TxtPath == <<"r", ".", "t", "x", "t">>
PycPath == <<"s", ".", "p", "y", "c">>

\* "diff --git a/<old> b/<new>"
SectionHeader(old_file, new_file) ==
    DiffGitMarker \o <<"a", "/">> \o old_file \o <<" ", "b", "/">> \o new_file

\* "@@ -1 +1,2 @@" and "@@ -2 +2 @@"
HunkHeaderGrow == <<"@", "@", " ", "-", "1", " ", "+", "1", ",", "2", " ", "@", "@">>
HunkHeaderSame == <<"@", "@", " ", "-", "2", " ", "+", "2", " ", "@", "@">>

\* the lines the parser is run on
TextLineVocab ==
    {SectionHeader(PyPath, PyPath), SectionHeader(TxtPath, TxtPath),
     HunkHeaderGrow, HunkHeaderSame,
     ContextLine, PlusLine, MinusLine, EmptyLine}

DiffTexts ==
    {JoinLines(ls) : ls \in UNION {[1..k -> TextLineVocab] : k \in 0..MaxTextLines}}

\* the (old_file, new_file) of a section handed to the pipeline: unchanged
\* paths and the rename of a .py file to a .txt file
PathPairs ==
    {<<PyPath, PyPath>>, <<TxtPath, TxtPath>>, <<PycPath, PycPath>>, <<PyPath, TxtPath>>}

\* a file section: its header alone, or followed by a hunk that keeps line 1
\* and adds a definition at line 2
SectionLines ==
    {<<SectionHeader(pp[1], pp[2])>> \o body :
        pp \in PathPairs,
        body \in {<<>>, <<HunkHeaderGrow, ContextLine, PlusDefLine>>}}

RECURSIVE Flatten(_)
Flatten(ss) == IF ss = <<>> THEN <<>> ELSE Head(ss) \o Flatten(Tail(ss))

\* the statements of the file content the repository holds: none, or
\* "def f(): pass"
ContentLines == {<<>>, <<Stmt(0, "def", <<"f">>, <<>>)>>}

\* what _enhance_file_change meets for one file: the file is missing, cannot
\* be read or decoded, does not parse, makes ast.parse fail otherwise, or
\* is read and parsed, after which the mapping runs or fails
FileEnvs ==
    {[exists |-> FALSE, readable |-> FALSE,
      content |-> [parse |-> "ok", lines |-> <<>>], mapping_error |-> FALSE],
     [exists |-> TRUE, readable |-> FALSE,
      content |-> [parse |-> "ok", lines |-> <<>>], mapping_error |-> FALSE],
     [exists |-> TRUE, readable |-> TRUE,
      content |-> [parse |-> "SyntaxError", lines |-> <<>>], mapping_error |-> FALSE],
     [exists |-> TRUE, readable |-> TRUE,
      content |-> [parse |-> "error", lines |-> <<>>], mapping_error |-> FALSE]}
    \cup
    {[exists |-> TRUE, readable |-> TRUE,
      content |-> [parse |-> "ok", lines |-> ls], mapping_error |-> m] :
        ls \in ContentLines, m \in BOOLEAN}

-----------------------------------------------------------------------------
(* The parser applied to one diff text.                                    *)

InitParse ==
    /\ pc = "start"
    /\ diff_text \in DiffTexts
    /\ file_changes = <<>>
    /\ env = <<>>
    /\ enhanced_changes = <<>>
    /\ hunks = <<>>
    /\ functions = <<>>
    /\ function_changes = <<>>
    /\ line_numbers = <<>>
    /\ containing_functions = <<>>

\* parse_diff_output(diff_text), first statement of parse_diff_with_functions
ParseDiffOutput ==
    /\ pc = "start"
    /\ IF ParseDiffOutputRaises(diff_text)
       THEN pc' = "raised" /\ UNCHANGED file_changes
       ELSE pc' = "parsed" /\ file_changes' = parse_diff_output(diff_text)
    /\ UNCHANGED <<diff_text, env, enhanced_changes, hunks, functions, function_changes,
                   line_numbers, containing_functions>>

NextParse == ParseDiffOutput

SpecParse == InitParse /\ [][NextParse]_vars

-----------------------------------------------------------------------------
(* The parser applied to texts with malformed headers and metadata lines.  *)

MaxSectionLines == 4   \* lines of a diff text with malformed or metadata lines

\* "diff --git junk": a section whose first line is not 'a/<old> b/<new>'
BadSectionHeader == <<"d", "i", "f", "f", " ", "-", "-", "g", "i", "t", " ", "j", "u", "n", "k">>

\* "@@ -2,0 +3 @@ f": the old count given, the new count omitted, and text
\* after the closing '@@'
HunkHeaderInsert == <<"@", "@", " ", "-", "2", ",", "0", " ", "+", "3", " ", "@", "@", " ", "f">>

\* "@@ -1 @@": starts with '@@' and fails the hunk-header pattern
BadHunkHeader == <<"@", "@", " ", "-", "1", " ", "@", "@">>

\* the metadata lines _parse_file_section reads, and one it passes over
NewFileModeLine ==
    <<"n", "e", "w", " ", "f", "i", "l", "e", " ", "m", "o", "d", "e", " ", "1", "0", "0", "7",
      "5", "5">>
DeletedFileModeLine ==
    <<"d", "e", "l", "e", "t", "e", "d", " ", "f", "i", "l", "e", " ", "m", "o", "d", "e", " ",
      "1", "0", "0", "6", "0", "0">>
OldModeLine == <<"o", "l", "d", " ", "m", "o", "d", "e", " ", "1", "0", "0", "7", "5", "5">>
NewModeLine == <<"n", "e", "w", " ", "m", "o", "d", "e", " ", "1", "0", "0", "6", "0", "0">>
OldPathLine == <<"-", "-", "-", " ", "a", "/", "m", ".", "p", "y">>

\* the lines of texts with well-headed and malformed sections and hunks
SectionLineVocab ==
    {SectionHeader(PyPath, PyPath), SectionHeader(PyPath, TxtPath), BadSectionHeader,
     HunkHeaderGrow, HunkHeaderInsert, BadHunkHeader,
     NewFileModeLine, ContextLine, PlusLine}

\* the lines of texts with metadata before and after the first '@@' line
MetadataLineVocab ==
    {SectionHeader(PyPath, TxtPath), HunkHeaderInsert, BadHunkHeader,
     NewFileModeLine, DeletedFileModeLine, OldModeLine, NewModeLine, OldPathLine,
     PlusLine}

\* a hunk header whose new start has one digit more than int() converts
LongNumber == [i \in 1..IntMaxStrDigits + 1 |-> "1"]

LongNumberText ==
    JoinLines(<<SectionHeader(PyPath, PyPath),
                <<"@", "@", " ", "-", "1", " ", "+">> \o LongNumber \o <<" ", "@", "@">>>>)

SectionTexts ==
    {JoinLines(ls) : ls \in UNION {[1..k -> SectionLineVocab] : k \in 0..MaxSectionLines}}
    \cup {LongNumberText}

InitSection ==
    /\ pc = "start"
    /\ diff_text \in SectionTexts
    /\ file_changes = <<>>
    /\ env = <<>>
    /\ enhanced_changes = <<>>
    /\ hunks = <<>>
    /\ functions = <<>>
    /\ function_changes = <<>>
    /\ line_numbers = <<>>
    /\ containing_functions = <<>>

NextSection == ParseDiffOutput

SpecSection == InitSection /\ [][NextSection]_vars

MetadataTexts ==
    {JoinLines(ls) : ls \in UNION {[1..k -> MetadataLineVocab] : k \in 0..MaxSectionLines}}

InitMetadata ==
    /\ pc = "start"
    /\ diff_text \in MetadataTexts
    /\ file_changes = <<>>
    /\ env = <<>>
    /\ enhanced_changes = <<>>
    /\ hunks = <<>>
    /\ functions = <<>>
    /\ function_changes = <<>>
    /\ line_numbers = <<>>
    /\ containing_functions = <<>>

NextMetadata == ParseDiffOutput

SpecMetadata == InitMetadata /\ [][NextMetadata]_vars

-----------------------------------------------------------------------------
(* The combiner applied to a file with one hunk: start numbers from 0, the *)
(* "\ No newline at end of file" marker among the raw lines.               *)

MaxWalkLines == 3      \* raw lines of the hunk

NoNewlineLine ==
    <<"\\", " ", "N", "o", " ", "n", "e", "w", "l", "i", "n", "e", " ", "a", "t",
      " ", "e", "n", "d", " ", "o", "f", " ", "f", "i", "l", "e">>

WalkLineVocab ==
    {PlusLine, MinusLine, ContextLine, EmptyLine, NoNewlineLine, PlusDefLine}

\* the hunks the parser builds from a header "@@ -a[,b] +c[,d] @@", whose
\* start numbers are any \d+ (0 as in "@@ -0,0 +1 @@"), and the raw lines
\* that follow it
WalkHunks ==
    {DiffHunk(os, ns, ls) :
        os \in 0..MaxStart, ns \in 0..MaxStart,
        ls \in UNION {[1..k -> WalkLineVocab] : k \in 0..MaxWalkLines}}

\* the detector found no function or one
WalkFunctions ==
    {<<>>} \cup {<<PythonFunction(<<"f">>, None, s, e)>> :
                    s \in 1..MaxLine, e \in 1..MaxLine}

InitHunk ==
    /\ pc = "ready"
    /\ \E h \in WalkHunks : hunks = <<h>>
    /\ \E fs \in WalkFunctions : DetectorOrdered(fs) /\ functions = fs
    /\ function_changes = <<>>
    /\ line_numbers = <<>>
    /\ containing_functions = <<>>
    /\ diff_text = <<>>
    /\ file_changes = <<>>
    /\ env = <<>>
    /\ enhanced_changes = <<>>

SpecHunk == InitHunk /\ [][NextMap]_vars

-----------------------------------------------------------------------------
(* The detector applied to one file content.                               *)

MaxSourceLines == 4    \* statements of a file content
MaxDecorators == 2     \* decorators of a function

\* what a line may hold: a class, a function, an async function, or a
\* compound statement that defines nothing
StmtKinds ==
    {<<"class", <<"C">>>>, <<"class", <<"D">>>>, <<"def", <<"f">>>>,
     <<"async def", <<"g">>>>, <<"if", None>>}

\* the indentation depths of n statements: the first at depth 0, each other
\* at most one level deeper than the statement above it
RECURSIVE Indents(_)
Indents(n) ==
    IF n = 0 THEN {<<>>}
    ELSE IF n = 1 THEN {<<0>>}
    ELSE UNION {{Append(depths, d) : d \in 0..depths[Len(depths)] + 1} :
                    depths \in Indents(n - 1)}

\* the sources of n statements
SourcesOfLen(n) ==
    {[i \in 1..n |-> Stmt(depths[i], kinds[i][1], kinds[i][2], <<>>)] :
        depths \in Indents(n), kinds \in [1..n -> StmtKinds]}

\* @c, @property, @x.setter, @x.getter, @x.deleter, @m.wraps, @c(), @x.setter(),
\* @m.wraps(), and two decorators that are no name, attribute or call of
\* one: @c[0] and @c()()
DecoratorVocab ==
    {Decorator("Name", "", <<"c">>), Decorator("Name", "", PropertyName),
     Decorator("Attribute", "", <<"s", "e", "t", "t", "e", "r">>),
     Decorator("Attribute", "", <<"g", "e", "t", "t", "e", "r">>),
     Decorator("Attribute", "", <<"d", "e", "l", "e", "t", "e", "r">>),
     Decorator("Attribute", "", <<"w", "r", "a", "p", "s">>),
     Decorator("Call", "Name", <<"c">>),
     Decorator("Call", "Attribute", <<"s", "e", "t", "t", "e", "r">>),
     Decorator("Call", "Attribute", <<"w", "r", "a", "p", "s">>),
     Decorator("Subscript", "", None),
     Decorator("Call", "Call", None)}

\* "def f(): pass" under up to MaxDecorators decorators
DecoratedSources ==
    {<<Stmt(0, "def", <<"f">>, decorator_list)>> :
        decorator_list \in UNION {[1..k -> DecoratorVocab] : k \in 1..MaxDecorators}}

\* the contents for which ast.parse raises SyntaxError or another error
FailingContents ==
    {[parse |-> "SyntaxError", lines |-> <<Stmt(0, "def", <<"f">>, <<>>)>>],
     [parse |-> "error", lines |-> <<Stmt(0, "def", <<"f">>, <<>>)>>]}

\* the repository holds one readable file
FileEnv(file_content) ==
    [exists |-> TRUE, readable |-> TRUE, content |-> file_content, mapping_error |-> FALSE]

InitDetect ==
    /\ pc = "content"
    /\ \/ \E n \in 0..MaxSourceLines : \E lines \in SourcesOfLen(n) :
              env = <<FileEnv([parse |-> "ok", lines |-> lines])>>
       \/ \E lines \in DecoratedSources :
              env = <<FileEnv([parse |-> "ok", lines |-> lines])>>
       \/ \E file_content \in FailingContents : env = <<FileEnv(file_content)>>
    /\ functions = <<>>
    /\ diff_text = <<>>
    /\ file_changes = <<>>
    /\ enhanced_changes = <<>>
    /\ hunks = <<>>
    /\ function_changes = <<>>
    /\ line_numbers = <<>>
    /\ containing_functions = <<>>

\* functions = detector.detect_functions(file_content)
DetectFunctions ==
    /\ pc = "content"
    /\ LET detected == detect_functions(env[1].content)
       IN  IF detected.exc
           THEN pc' = "raised" /\ UNCHANGED functions
           ELSE pc' = "detected" /\ functions' = detected.value
    /\ UNCHANGED <<diff_text, file_changes, env, enhanced_changes, hunks, function_changes,
                   line_numbers, containing_functions>>

NextDetect == DetectFunctions

SpecDetect == InitDetect /\ [][NextDetect]_vars

-----------------------------------------------------------------------------
(* find_functions_at_lines applied to one file content and a list of line  *)
(* numbers.                                                                *)

MaxFindLines == 3      \* statements of the file content
MaxRequested == 2      \* requested line numbers

\* a class, a function and a compound statement that defines nothing
FindStmtKinds == {<<"class", <<"C">>>>, <<"def", <<"f">>>>, <<"if", None>>}

\* the sources of n statements
FindSourcesOfLen(n) ==
    {[i \in 1..n |-> Stmt(depths[i], kinds[i][1], kinds[i][2], <<>>)] :
        depths \in Indents(n), kinds \in [1..n -> FindStmtKinds]}

\* the requested lines: any list, with repetitions and in any order, of
\* numbers from line 1 to one line past the longest source
RequestedLines == UNION {[1..k -> 1..MaxFindLines + 1] : k \in 0..MaxRequested}

InitFind ==
    /\ pc = "content"
    /\ \/ \E n \in 0..MaxFindLines : \E lines \in FindSourcesOfLen(n) :
              env = <<FileEnv([parse |-> "ok", lines |-> lines])>>
       \/ \E file_content \in FailingContents : env = <<FileEnv(file_content)>>
    /\ line_numbers \in RequestedLines
    /\ functions = <<>>
    /\ containing_functions = <<>>
    /\ diff_text = <<>>
    /\ file_changes = <<>>
    /\ enhanced_changes = <<>>
    /\ hunks = <<>>
    /\ function_changes = <<>>

\* containing_functions = detector.find_functions_at_lines(file_content, line_numbers)
FindFunctionsAtLines ==
    /\ pc = "content"
    /\ LET found == find_functions_at_lines(env[1].content, line_numbers)
       IN  IF found.exc
           THEN pc' = "raised" /\ UNCHANGED <<functions, containing_functions>>
           ELSE /\ pc' = "found"
                /\ functions' = found.functions
                /\ containing_functions' = found.value
    /\ UNCHANGED <<diff_text, file_changes, env, enhanced_changes, hunks,
                   function_changes, line_numbers>>

NextFind == FindFunctionsAtLines

SpecFind == InitFind /\ [][NextFind]_vars

-----------------------------------------------------------------------------
(* parse_diff_with_functions: the parser, then one _enhance_file_change    *)
(* per FileChange.                                                         *)

Init ==
    /\ pc = "start"
    /\ \E n \in 0..MaxFiles :
          /\ \E ss \in [1..n -> SectionLines] : diff_text = JoinLines(Flatten(ss))
          /\ env \in [1..n -> FileEnvs]
    /\ file_changes = <<>>
    /\ enhanced_changes = <<>>
    /\ hunks = <<>>
    /\ functions = <<>>
    /\ function_changes = <<>>
    /\ line_numbers = <<>>
    /\ containing_functions = <<>>

\* variant: processed_functions lives on the parser object, so a key
\* reported for an earlier file of the diff is not reported again
EnhanceNextSharedDedup ==
    /\ pc = "parsed"
    /\ Len(enhanced_changes) < Len(file_changes)
    /\ LET i == Len(enhanced_changes) + 1
           r == _enhance_file_change(file_changes[i], env[i])
           processed_functions ==
               UNION {{FunctionKey(enhanced_changes[j].function_changes[c].function) :
                          c \in 1..Len(enhanced_changes[j].function_changes)} :
                      j \in 1..i - 1}
           fresh == SelectSeq(r.value.function_changes,
                              LAMBDA fc : FunctionKey(fc.function) \notin processed_functions)
       IN  /\ pc' = pc
           /\ enhanced_changes' =
                 Append(enhanced_changes, [r.value EXCEPT !.function_changes = fresh])
    /\ UNCHANGED <<diff_text, file_changes, env, hunks, functions, function_changes,
                   line_numbers, containing_functions>>

\* one iteration of "for change in file_changes"; an exception that leaves
\* _enhance_file_change leaves parse_diff_with_functions too
EnhanceNext ==
    /\ pc = "parsed"
    /\ Len(enhanced_changes) < Len(file_changes)
    /\ LET i == Len(enhanced_changes) + 1
           r == _enhance_file_change(file_changes[i], env[i])
       IN  IF r.raised
           THEN pc' = "raised" /\ UNCHANGED enhanced_changes
           ELSE pc' = pc /\ enhanced_changes' = Append(enhanced_changes, r.value)
    /\ UNCHANGED <<diff_text, file_changes, env, hunks, functions, function_changes,
                   line_numbers, containing_functions>>

\* return enhanced_changes
Return ==
    /\ pc = "parsed"
    /\ Len(enhanced_changes) = Len(file_changes)
    /\ pc' = "returned"
    /\ UNCHANGED <<diff_text, file_changes, env, enhanced_changes,
                   hunks, functions, function_changes,
                   line_numbers, containing_functions>>

Next == ParseDiffOutput \/ EnhanceNext \/ Return

Spec == Init /\ [][Next]_vars

-----------------------------------------------------------------------------
(* Properties of the combiner.                                             *)

\* the file-wide added, removed and context sets of the hunks under study
AllAdded == AllChangedLines(hunks)[1]
AllRemoved == AllChangedLines(hunks)[2]
AllContext == AllChangedLines(hunks)[3]

Span(f) == f.start_line .. f.end_line

IsDetected(fc) == \E i \in 1..Len(functions) : functions[i] = fc.function

\* C1: every FunctionChange, for a detected or a synthesized function, has a
\* non-empty affected_lines whose elements all lie in
\* [function.start_line, function.end_line].
SpanContainment ==
    pc = "mapped" =>
        \A i \in 1..Len(function_changes) :
            /\ function_changes[i].affected_lines # <<>>
            /\ \A n \in Elems(function_changes[i].affected_lines) :
                  /\ function_changes[i].function.start_line <= n
                  /\ n <= function_changes[i].function.end_line

\* a file whose changes hold a detected function and a synthesized one
SpanContainmentWitness ==
    /\ pc = "mapped"
    /\ \E i, j \in 1..Len(function_changes) :
          /\ IsDetected(function_changes[i])
          /\ ~ IsDetected(function_changes[j])

\* C2: no key (name, class_name, start_line) occurs in more than one
\* FunctionChange of a file.
NoDoubleReport ==
    pc = "mapped" =>
        \A i, j \in 1..Len(function_changes) :
            i # j => FunctionKey(function_changes[i].function)
                        # FunctionKey(function_changes[j].function)

\* two hunks that each hold the same added definition at the same line
\* number, reported once
NoDoubleReportWitness ==
    /\ pc = "mapped"
    /\ Len(hunks) = 2
    /\ \E a \in Elems(_detect_new_functions_in_hunk(hunks[1], functions)) :
       \E b \in Elems(_detect_new_functions_in_hunk(hunks[2], functions)) :
          /\ FunctionKey(a) = FunctionKey(b)
          /\ \E i \in 1..Len(function_changes) :
                FunctionKey(function_changes[i].function) = FunctionKey(a)

\* the FunctionChanges reported for the detected function f
ChangesOf(f) == {i \in 1..Len(function_changes) : function_changes[i].function = f}

\* the change type the classification rules give a function with the
\* intersections A, R, C
ExpectedType(f, A, R, C) ==
    IF f.start_line \in AllAdded THEN "added"
    ELSE IF R # {} /\ A = {} /\ C = {} THEN "deleted"
    ELSE "modified"

AppendOnly ==
    /\ Len(functions) = 2
    /\ functions[2].start_line > functions[1].end_line
    /\ AllRemoved = {}
    /\ Span(functions[1]) \cap AllAdded = {}
    /\ Span(functions[2]) \subseteq AllAdded
    /\ \E h \in Elems(hunks) :
       \E a \in Elems(AddedContent(h.new_start, h.lines)) :
          /\ a.line_num = functions[2].start_line
          /\ LooksLikeDef(Strip(a.content))
          /\ NewFunc(a.line_num, Strip(a.content)).name = functions[2].name

\* C4: when a diff only appends a function after an existing one, the
\* combiner reports exactly one FunctionChange, 'added' for the appended
\* function, and none for the existing function.
AppendReportsOnlyAdded ==
    (pc = "mapped" /\ AppendOnly) =>
        /\ Len(function_changes) = 1
        /\ function_changes[1].function = functions[2]
        /\ function_changes[1].change_type = "added"

\* C9: affected_lines is strictly ascending and holds only new-file numbers
\* of lines some hunk walks as added or context.
AffectedLinesNewNumbering ==
    pc = "mapped" =>
        \A i \in 1..Len(function_changes) :
            LET al == function_changes[i].affected_lines
            IN  /\ \A a, b \in 1..Len(al) : a < b => al[a] < al[b]
                /\ Elems(al) \subseteq AllAdded \cup AllContext

-----------------------------------------------------------------------------
(* Properties of the pipeline.                                             *)

\* the paths of the model that do not end in '.py'
NonPythonPaths == {TxtPath, PycPath}

HasAddedDefinition(change) ==
    \E h \in Elems(change.hunks) : \E l \in Elems(h.lines) : l = PlusDefLine

Failed(file_env) ==
    \/ file_env.exists /\ ~ file_env.readable
    \/ file_env.exists /\ file_env.readable /\ file_env.content.parse = "error"
    \/ file_env.exists /\ file_env.readable /\ file_env.mapping_error

\* C6: parse_diff_with_functions raises nothing and returns one
\* EnhancedFileChange per FileChange, in the parser's order, whatever happens
\* to the single files.
OnePerFileChange ==
    /\ pc # "raised"
    /\ Len(enhanced_changes) <= Len(file_changes)
    /\ \A i \in 1..Len(enhanced_changes) :
          enhanced_changes[i].original_change = file_changes[i]
    /\ pc = "returned" => Len(enhanced_changes) = Len(file_changes)

\* the call returned two results although the first .py file failed, and the
\* second file got its function changes
OnePerFileChangeWitness ==
    /\ pc = "returned"
    /\ Len(enhanced_changes) = 2
    /\ file_changes[1].new_file = PyPath
    /\ Failed(env[1])
    /\ enhanced_changes[2].function_changes # <<>>

\* C7: when anything fails while a .py file is enhanced, the result has no
\* detected functions and no function changes; in every outcome
\* original_change is the input FileChange.
FailureLeavesNoFunctionData ==
    \A i \in 1..Len(enhanced_changes) :
        /\ enhanced_changes[i].original_change = file_changes[i]
        /\ (file_changes[i].new_file = PyPath /\ (~ env[i].exists \/ Failed(env[i]))) =>
              /\ enhanced_changes[i].detected_functions = <<>>
              /\ enhanced_changes[i].function_changes = <<>>

-----------------------------------------------------------------------------
(* Properties of the parser.                                               *)

IsContentLine(line) ==
    StartsWith(line, <<"+">>) \/ StartsWith(line, <<"-">>) \/ StartsWith(line, <<" ">>)

\* every line of the diff text is a section header, a hunk header or a
\* prefixed content line; the text may end with a newline
WellFormedText ==
    LET ls == Split(diff_text, "\n")
    IN  \A k \in 1..Len(ls) :
            \/ StartsWith(ls[k], DiffGitMarker) /\ HeaderMatch(Drop(ls[k], 11)).matched
            \/ HunkHeaderMatch(ls[k]).matched
            \/ IsContentLine(ls[k])
            \/ k = Len(ls) /\ ls[k] = <<>>

\* the hunk's text holds new_count added or context lines and old_count
\* removed or context lines
CountsMatch(h) ==
    /\ CountPrefixed(h.lines, {"+", " "}) = h.new_count
    /\ CountPrefixed(h.lines, {"-", " "}) = h.old_count

ParsedHunks == UNION {Elems(file_changes[i].hunks) : i \in 1..Len(file_changes)}

\* C8: walking a well-formed parsed hunk with new_count = K classifies
\* exactly K lines as added or context and leaves the new-line counter at
\* new_start + K, also for a hunk that another section follows.
LineCountInvariant ==
    (pc = "parsed" /\ WellFormedText) =>
        \A h \in ParsedHunks :
            CountsMatch(h) =>
                LET st == ExtractWalk(h)
                IN  /\ Cardinality(st.added_lines) + Cardinality(st.modified_lines)
                          = h.new_count
                    /\ st.added_lines \cap st.modified_lines = {}
                    /\ st.current_new_line = h.new_start + h.new_count

-----------------------------------------------------------------------------
(* Properties of the parser on malformed and annotated texts.              *)

\* the lines of a diff text
TextLines(text) == Split(text, "\n")

\* among the lines ls, those that open a 'diff --git ' section, and those of
\* them whose remainder matches 'a/<old> b/<new>'
SectionStarts(ls) == {k \in 1..Len(ls) : StartsWith(ls[k], DiffGitMarker)}

WellHeaded(ls) == {k \in SectionStarts(ls) : HeaderMatch(Drop(ls[k], 11)).matched}

\* a text without a section line yields the empty list, and a section with
\* a bad first line is skipped while every other section is returned
SkipsBadSections ==
    pc = "parsed" =>
        LET ls == TextLines(diff_text)
        IN  /\ (SectionStarts(ls) = {} => file_changes = <<>>)
            /\ Len(file_changes) = Cardinality(WellHeaded(ls))

\* C11: parse_diff_output never raises; the empty string and a text with
\* no line beginning 'diff --git ' yield the empty list, and a section
\* whose first line is not 'a/<old> b/<new>' is skipped while every other
\* section is returned.
ParserNeverRaises ==
    /\ pc # "raised"
    /\ SkipsBadSections

\* the last line of the section that line k of ls opens
SectionEnd(ls, k) ==
    LET later == {j \in SectionStarts(ls) : j > k}
    IN  IF later = {} THEN Len(ls)
        ELSE (CHOOSE j \in later : \A i \in later : j <= i) - 1

\* the well-formed hunk headers of the section that line k opens, in order
HunkHeadersOf(ls, k) ==
    Sorted({i \in k + 1..SectionEnd(ls, k) : HunkHeaderMatch(ls[i]).matched})

\* C12: the parser emits one FileChange per well-headed section, in the
\* order the sections appear, and within it one DiffHunk per well-formed
\* hunk header, in the order the headers appear.
OrderOfAppearance ==
    pc = "parsed" =>
        LET ls == TextLines(diff_text)
            starts == Sorted(WellHeaded(ls))
        IN  /\ Len(file_changes) = Len(starts)
            /\ \A j \in 1..Len(starts) :
                  LET header == HeaderMatch(Drop(ls[starts[j]], 11))
                      heads == HunkHeadersOf(ls, starts[j])
                      hs == file_changes[j].hunks
                  IN  /\ file_changes[j].old_file = header.group1
                      /\ file_changes[j].new_file = header.group2
                      /\ Len(hs) = Len(heads)
                      /\ \A i \in 1..Len(heads) :
                            LET match == HunkHeaderMatch(ls[heads[i]])
                            IN  /\ hs[i].old_start = ToInt(match.group1)
                                /\ hs[i].new_start = ToInt(match.group3)

\* two sections are returned in their order, the second with two hunks in
\* the order of their headers, the larger start first
OrderOfAppearanceWitness ==
    /\ pc = "parsed"
    /\ Len(file_changes) = 2
    /\ file_changes[1].new_file = TxtPath
    /\ file_changes[2].new_file = PyPath
    /\ Len(file_changes[2].hunks) = 2
    /\ file_changes[2].hunks[1].new_start = 3
    /\ file_changes[2].hunks[2].new_start = 1

\* the numbers a hunk header '@@ -<a>[,<b>] +<c>[,<d>] @@' states, read word
\* by word; an omitted count is 1
HeaderNumbers(line) ==
    LET words == Split(line, " ")
        old == Split(Drop(words[2], 1), ",")
        new == Split(Drop(words[3], 1), ",")
    IN  [old_start |-> ToInt(old[1]),
         old_count |-> IF Len(old) > 1 THEN ToInt(old[2]) ELSE 1,
         new_start |-> ToInt(new[1]),
         new_count |-> IF Len(new) > 1 THEN ToInt(new[2]) ELSE 1]

RECURSIVE ContentBetween(_, _, _)
ContentBetween(ls, a, b) ==
    IF a > b THEN <<>>
    ELSE (IF StartsWith(ls[a], <<"@", "@">>) THEN <<>> ELSE <<ls[a]>>)
         \o ContentBetween(ls, a + 1, b)

\* the content lines that follow the i-th well-formed header of a section up
\* to the next well-formed header or the end of the section
FollowingContent(ls, heads, i, end) ==
    ContentBetween(ls, heads[i] + 1, IF i < Len(heads) THEN heads[i + 1] - 1 ELSE end)

\* C14: a line that starts with '@@' and fails the header pattern yields no
\* DiffHunk and is not stored as a hunk line; the content lines after it go
\* to the most recently opened hunk of the section, and are discarded when
\* the section has opened none yet.
MalformedHunkHeader ==
    pc = "parsed" =>
        LET ls == TextLines(diff_text)
            starts == Sorted(WellHeaded(ls))
        IN  \A j \in 1..Len(starts) :
                LET heads == HunkHeadersOf(ls, starts[j])
                    hs == file_changes[j].hunks
                IN  /\ Len(hs) = Len(heads)
                    /\ \A i \in 1..Len(hs) :
                          LET follow == FollowingContent(ls, heads, i, SectionEnd(ls, starts[j]))
                          IN  /\ \A n \in 1..Len(hs[i].lines) :
                                    ~ StartsWith(hs[i].lines[n], <<"@", "@">>)
                              /\ Len(hs[i].lines) >= Len(follow)
                              /\ SubSeq(hs[i].lines, 1, Len(follow)) = follow
                              /\ \A n \in Len(follow) + 1..Len(hs[i].lines) :
                                    hs[i].lines[n] = <<>>

\* a malformed header between an opened hunk and a content line: the line
\* went to the opened hunk
MalformedHunkHeaderWitness ==
    /\ pc = "parsed"
    /\ diff_text = JoinLines(<<SectionHeader(PyPath, PyPath), HunkHeaderGrow,
                               BadHunkHeader, PlusLine>>)
    /\ Len(file_changes) = 1
    /\ Len(file_changes[1].hunks) = 1
    /\ file_changes[1].hunks[1].lines = <<PlusLine>>

\* C15: the raw lines of each DiffHunk are exactly the text lines after its
\* header and before the next hunk header, the next 'diff --git' section
\* or the end of the input, in order and with nothing added; a last hunk
\* that another section follows holds as many lines as the text has there.
RawLinesExact ==
    pc = "parsed" =>
        LET ls == TextLines(diff_text)
            starts == Sorted(WellHeaded(ls))
        IN  \A j \in 1..Len(starts) :
                LET heads == HunkHeadersOf(ls, starts[j])
                    hs == file_changes[j].hunks
                IN  \A i \in 1..Len(hs) :
                        /\ i <= Len(heads)
                        /\ hs[i].lines =
                              FollowingContent(ls, heads, i, SectionEnd(ls, starts[j]))

\* the prefixes of the metadata lines
NewFileModePrefix == <<"n", "e", "w", " ", "f", "i", "l", "e", " ", "m", "o", "d", "e">>
DeletedFileModePrefix == <<"d", "e", "l", "e", "t", "e", "d", " ", "f", "i", "l", "e", " ", "m", "o", "d", "e">>
OldModePrefix == <<"o", "l", "d", " ", "m", "o", "d", "e">>
NewModePrefix == <<"n", "e", "w", " ", "m", "o", "d", "e">>

\* the lines of the section that line k opens that come before its first
\* line starting with '@@', in order
MetadataLinesOf(ls, k) ==
    LET at == {i \in k + 1..SectionEnd(ls, k) : StartsWith(ls[i], <<"@", "@">>)}
        last == IF at = {} THEN SectionEnd(ls, k)
                ELSE (CHOOSE i \in at : \A j \in at : i <= j) - 1
    IN  SubSeq(ls, k + 1, last)

\* the <m> of the last line of ms that starts with one of the prefixes, the
\* default mode when none does
ModeSetBy(ms, prefixes) ==
    LET setting == {i \in 1..Len(ms) : \E p \in prefixes : StartsWith(ms[i], p)}
        n == CHOOSE i \in setting : \A j \in setting : j <= i
        p == CHOOSE q \in prefixes : StartsWith(ms[n], q)
    IN  IF setting = {} THEN DefaultMode ELSE Drop(ms[n], Len(p) + 1)

\* C16: only the lines before the first '@@' line of a section are
\* metadata: 'new file mode <m>' sets is_new_file and new_mode,
\* 'deleted file mode <m>' sets is_deleted_file and old_mode, 'old mode <m>'
\* and 'new mode <m>' set their mode, every other line changes nothing,
\* the paths come from the section header alone, and no line at or after
\* the first '@@' changes a mode, a flag or a path.
MetadataBeforeHunks ==
    pc = "parsed" =>
        LET ls == TextLines(diff_text)
            starts == Sorted(WellHeaded(ls))
        IN  \A j \in 1..Len(starts) :
                LET header == HeaderMatch(Drop(ls[starts[j]], 11))
                    ms == MetadataLinesOf(ls, starts[j])
                    fc == file_changes[j]
                IN  /\ fc.old_file = header.group1
                    /\ fc.new_file = header.group2
                    /\ fc.is_new_file =
                          (\E i \in 1..Len(ms) : StartsWith(ms[i], NewFileModePrefix))
                    /\ fc.is_deleted_file =
                          (\E i \in 1..Len(ms) : StartsWith(ms[i], DeletedFileModePrefix))
                    /\ fc.new_mode = ModeSetBy(ms, {NewFileModePrefix, NewModePrefix})
                    /\ fc.old_mode = ModeSetBy(ms, {DeletedFileModePrefix, OldModePrefix})

\* 'old mode 100755' before the first hunk header set old_mode, and
\* 'new file mode 100755' after it became a hunk line and set nothing
MetadataBeforeHunksWitness ==
    /\ pc = "parsed"
    /\ Len(file_changes) = 1
    /\ file_changes[1].old_mode = <<"1", "0", "0", "7", "5", "5">>
    /\ file_changes[1].new_mode = DefaultMode
    /\ ~ file_changes[1].is_new_file
    /\ Len(file_changes[1].hunks) = 1
    /\ file_changes[1].hunks[1].lines = <<NewFileModeLine>>

\* C17: a section with a valid header, with or without metadata lines, and
\* no line starting with '@@' yields one FileChange whose hunks are empty.
SectionWithoutHunks ==
    pc = "parsed" =>
        LET ls == TextLines(diff_text)
            starts == Sorted(WellHeaded(ls))
        IN  /\ Len(file_changes) = Len(starts)
            /\ \A j \in 1..Len(starts) :
                  (\A i \in starts[j] + 1..SectionEnd(ls, starts[j]) :
                        ~ StartsWith(ls[i], <<"@", "@">>))
                      => file_changes[j].hunks = <<>>

\* a section of a header and a 'deleted file mode' line was returned as a
\* deleted file without hunks
SectionWithoutHunksWitness ==
    /\ pc = "parsed"
    /\ diff_text = JoinLines(<<SectionHeader(PyPath, TxtPath), DeletedFileModeLine>>)
    /\ Len(file_changes) = 1
    /\ file_changes[1].is_deleted_file
    /\ file_changes[1].hunks = <<>>

-----------------------------------------------------------------------------
(* Properties of the detector.                                             *)

\* the statements of the content handed to the detector
SourceLines == env[1].content.lines

Detected == pc = "detected" /\ env[1].content.parse = "ok"

\* the function definitions of the source, in source order
DefStmts(lines) == Sorted({i \in 1..Len(lines) : lines[i].kind \in {"def", "async def"}})

\* the statement whose body holds statement i directly, 0 for the module
ParentOf(lines, i) ==
    LET above == {j \in 1..i - 1 : lines[j].indent < lines[i].indent}
    IN  IF above = {} THEN 0 ELSE CHOOSE j \in above : \A k \in above : k <= j

\* the class, function or module around statement i, reached through the
\* compound statements that define nothing
RECURSIVE ScopeOf(_, _)
ScopeOf(lines, i) ==
    LET parent == ParentOf(lines, i)
    IN  IF parent # 0 /\ lines[parent].kind = "if" THEN ScopeOf(lines, parent) ELSE parent

\* the name of statement j when it is a class, None otherwise
ClassNameAt(lines, j) == IF j # 0 /\ lines[j].kind = "class" THEN lines[j].name ELSE None

\* C18: class_name is the name of class C if and only if the function
\* definition is a direct child of C's body; a function nested in another
\* function has class_name None and is_method False, also inside a method,
\* and the direct methods of a class defined in a function carry that
\* class's name.
OwnerIsDirectParent ==
    Detected =>
        \A k \in 1..Len(functions) :
            \E i \in Elems(DefStmts(SourceLines)) :
                /\ functions[k].start_line = Lineno(SourceLines, i)
                /\ functions[k].class_name = ClassNameAt(SourceLines, ParentOf(SourceLines, i))
                /\ functions[k].is_method = (functions[k].class_name # None)

\* C18, amended: class_name is the name of the innermost class around the
\* definition when no function lies between the two (the definition may
\* stand inside compound statements of the class body), and None otherwise.
OwnerIsEnclosingScope ==
    Detected =>
        \A k \in 1..Len(functions) :
            \E i \in Elems(DefStmts(SourceLines)) :
                /\ functions[k].start_line = Lineno(SourceLines, i)
                /\ functions[k].class_name = ClassNameAt(SourceLines, ScopeOf(SourceLines, i))
                /\ functions[k].is_method = (functions[k].class_name # None)

\* a method defined under a compound statement of the body of class C, with
\* a function nested in it, was detected: the first carries C, the second
\* no class
OwnerIsEnclosingScopeWitness ==
    /\ Detected
    /\ SourceLines = <<Stmt(0, "class", <<"C">>, <<>>), Stmt(1, "if", None, <<>>),
                       Stmt(2, "def", <<"f">>, <<>>), Stmt(3, "async def", <<"g">>, <<>>)>>
    /\ Len(functions) = 2
    /\ functions[1].class_name = <<"C">> /\ functions[1].is_method
    /\ functions[2].class_name = None /\ ~ functions[2].is_method

\* C19: detect_functions returns one descriptor per function definition of
\* the tree, sorted by start_line ascending, definitions of equal
\* start_line in the order of the depth-first pre-order walk.
OnePerDefinitionSorted ==
    Detected =>
        LET defs == DefStmts(SourceLines)
        IN  /\ Len(functions) = Len(defs)
            /\ \A k \in 1..Len(defs) :
                  /\ functions[k].name = SourceLines[defs[k]].name
                  /\ functions[k].start_line = Lineno(SourceLines, defs[k])
                  /\ functions[k].is_async = (SourceLines[defs[k]].kind = "async def")
            /\ \A a, b \in 1..Len(functions) :
                  a < b => functions[a].start_line <= functions[b].start_line

\* a method, a function nested in it and a top-level function were detected
OnePerDefinitionSortedWitness ==
    /\ Detected
    /\ SourceLines = <<Stmt(0, "class", <<"D">>, <<>>), Stmt(1, "def", <<"f">>, <<>>),
                       Stmt(2, "async def", <<"g">>, <<>>), Stmt(0, "def", <<"f">>, <<>>)>>
    /\ Len(functions) = 3
    /\ functions[1].start_line = 2 /\ functions[2].start_line = 3
    /\ functions[3].start_line = 4

\* the decorators above the k-th function definition of the source
DecoratorListOf(k) == SourceLines[DefStmts(SourceLines)[k]].decorator_list

\* the entry the rules give for a decorator: the id of a name or called
\* name, the attr of an attribute or called attribute with setter, getter
\* and deleter turned into property
EntryFor(decorator) ==
    IF decorator.node = "Name" \/ (decorator.node = "Call" /\ decorator.func = "Name")
    THEN decorator.name
    ELSE IF decorator.name \in {<<"s", "e", "t", "t", "e", "r">>,
                                <<"g", "e", "t", "t", "e", "r">>,
                                <<"d", "e", "l", "e", "t", "e", "r">>}
    THEN <<"p", "r", "o", "p", "e", "r", "t", "y">>
    ELSE decorator.name

\* the decorator is a name, an attribute access or a call of one of them
IsNamed(decorator) ==
    \/ decorator.node \in {"Name", "Attribute"}
    \/ decorator.node = "Call" /\ decorator.func \in {"Name", "Attribute"}

\* C20: decorator_names lists the decorators in source order, one entry per
\* decorator: a name yields itself, an attribute its attribute name with
\* setter, getter and deleter yielding property, a call the called name or
\* attribute under the same rule; duplicates are kept.
OneEntryPerDecorator ==
    Detected =>
        \A k \in 1..Len(functions) :
            /\ k <= Len(DefStmts(SourceLines))
            /\ Len(functions[k].decorator_names) = Len(DecoratorListOf(k))
            /\ \A n \in 1..Len(DecoratorListOf(k)) :
                  functions[k].decorator_names[n] = EntryFor(DecoratorListOf(k)[n])

\* C20, amended: decorator_names lists, in source order and with duplicates
\* kept, one entry per decorator that is a name, an attribute access or a
\* call of a name or attribute, under the same rules; a decorator of
\* another form (a subscript, a call of a call) contributes no entry.
OneEntryPerNamedDecorator ==
    Detected =>
        \A k \in 1..Len(functions) :
            /\ k <= Len(DefStmts(SourceLines))
            /\ LET named == SelectSeq(DecoratorListOf(k), IsNamed)
               IN  /\ Len(functions[k].decorator_names) = Len(named)
                   /\ \A n \in 1..Len(named) :
                         functions[k].decorator_names[n] = EntryFor(named[n])

\* '@x.setter()' above '@c[0]': one entry, property
OneEntryPerNamedDecoratorWitness ==
    /\ Detected
    /\ Len(functions) = 1
    /\ DecoratorListOf(1) = <<Decorator("Call", "Attribute", <<"s", "e", "t", "t", "e", "r">>),
                              Decorator("Subscript", "", None)>>
    /\ functions[1].decorator_names = <<<<"p", "r", "o", "p", "e", "r", "t", "y">>>>

\* C21: detect_functions never raises: a content the language parser
\* rejects, for a syntax error or for any other failure, gives an empty
\* list, as does a content without definitions.
DetectorNeverRaises ==
    pc # "content" =>
        /\ pc = "detected"
        /\ (env[1].content.parse # "ok" \/ DefStmts(SourceLines) = <<>>)
              => functions = <<>>

\* the positions in the detected list of the functions whose span holds a
\* requested line
ContainingPositions ==
    Sorted({i \in 1..Len(functions) :
               \E k \in 1..Len(line_numbers) :
                  /\ functions[i].start_line <= line_numbers[k]
                  /\ line_numbers[k] <= functions[i].end_line})

\* C22: find_functions_at_lines returns exactly the detected functions whose
\* span [start_line, end_line] holds a requested line, each once, in
\* detection order; the empty list when no requested line is in a function.
ContainingFunctionsExact ==
    pc = "found" =>
        /\ functions = detect_functions(env[1].content).value
        /\ Len(containing_functions) = Len(ContainingPositions)
        /\ \A k \in 1..Len(containing_functions) :
              containing_functions[k] = functions[ContainingPositions[k]]
        /\ \A j, k \in 1..Len(containing_functions) :
              j # k => containing_functions[j] # containing_functions[k]

\* two requested lines inside one function, which nests a second function
\* that holds one of them
ContainingFunctionsExactWitness ==
    /\ pc = "found"
    /\ Len(containing_functions) = 2
    /\ Len(line_numbers) = 2
    /\ \A k \in 1..2 :
          /\ containing_functions[1].start_line <= line_numbers[k]
          /\ line_numbers[k] <= containing_functions[1].end_line
    /\ line_numbers[1] # line_numbers[2]

-----------------------------------------------------------------------------
(* Properties of the descriptors, the walk and the fallback scanner.       *)

\* C23: every descriptor the combiner reports, detected or synthesized by
\* the fallback scanner, has 1 <= start_line <= end_line.
DescriptorSpans ==
    pc = "mapped" =>
        \A i \in 1..Len(function_changes) :
            /\ 1 <= function_changes[i].function.start_line
            /\ function_changes[i].function.start_line
                  <= function_changes[i].function.end_line

\* the number of the lines before position i of ls that do not start with
\* the prefix
CountBefore(ls, i, prefix) ==
    Cardinality({j \in 1..i - 1 : ~ StartsWith(ls[j], <<prefix>>)})

\* the new-file and old-file numbers the walk holds when it reads line i:
\* every line but a '-' line has advanced the new counter, every line but
\* a '+' line the old counter
NewNumberAt(h, i) == h.new_start + CountBefore(h.lines, i, "-")
OldNumberAt(h, i) == h.old_start + CountBefore(h.lines, i, "+")

\* the positions of the lines of h with the prefix
PrefixedAt(h, prefix) == {i \in 1..Len(h.lines) : StartsWith(h.lines[i], <<prefix>>)}

\* C24: the walk of a hunk starts at old_start and new_start; a '+' line
\* records the new number as added and advances the new counter, a '-' line
\* records the old number as removed and advances the old counter, a ' '
\* line records the new number as context and advances both, any other
\* line advances both and records nothing; the file-wide sets are the
\* unions over the hunks.
WalkSemantics ==
    pc = "mapped" =>
        /\ \A k \in 1..Len(hunks) :
              LET h == hunks[k]
                  t == _extract_changed_lines_detailed(h)
                  st == ExtractWalk(h)
              IN  /\ t[1] = {NewNumberAt(h, i) : i \in PrefixedAt(h, "+")}
                  /\ t[2] = {OldNumberAt(h, i) : i \in PrefixedAt(h, "-")}
                  /\ t[3] = {NewNumberAt(h, i) : i \in PrefixedAt(h, " ")}
                  /\ st.current_new_line = NewNumberAt(h, Len(h.lines) + 1)
                  /\ st.current_old_line = OldNumberAt(h, Len(h.lines) + 1)
        /\ AllAdded = UNION {_extract_changed_lines_detailed(hunks[k])[1] : k \in 1..Len(hunks)}
        /\ AllRemoved = UNION {_extract_changed_lines_detailed(hunks[k])[2] : k \in 1..Len(hunks)}
        /\ AllContext = UNION {_extract_changed_lines_detailed(hunks[k])[3] : k \in 1..Len(hunks)}

\* a hunk whose second line is numbered after a line without prefix, next
\* to another hunk that adds to the file-wide sets
WalkSemanticsWitness ==
    /\ pc = "mapped"
    /\ \/ /\ Len(hunks) = 1
          /\ hunks[1].lines = <<EmptyLine, PlusLine>>
          /\ AllAdded = {hunks[1].new_start + 1}
       \/ /\ Len(hunks) = 2
          /\ hunks[1].lines = <<MinusLine>>
          /\ hunks[2].lines = <<MinusLine>>
          /\ Cardinality(AllRemoved) = 2

\* line i of hunk h is an added line whose text, without the prefix and the
\* surrounding whitespace, starts with "def " or "async def " and holds ':'
IsAddedDefinition(h, i) ==
    /\ StartsWith(h.lines[i], <<"+">>)
    /\ LET text == Strip(Drop(h.lines[i], 1))
       IN  /\ StartsWith(text, DefKw) \/ StartsWith(text, AsyncDefKw)
           /\ \E j \in 1..Len(text) : text[j] = ":"

\* the new-file number of line i of hunk h: the lines of the new file are
\* the '+' and ' ' lines of the hunk, numbered from new_start
NewFileNumber(h, i) ==
    h.new_start + Cardinality({j \in 1..i - 1 :
                                  \/ StartsWith(h.lines[j], <<"+">>)
                                  \/ StartsWith(h.lines[j], <<" ">>)})

InDetectedSpan(n) ==
    \E j \in 1..Len(functions) :
        functions[j].start_line <= n /\ n <= functions[j].end_line

\* the name of the definition on line i of hunk h: the text between the
\* keyword and the first '('
DefinedName(h, i) ==
    LET text == Strip(Drop(h.lines[i], 1))
        rest == IF StartsWith(text, AsyncDefKw) THEN Drop(text, 10) ELSE Drop(text, 4)
    IN  Strip(SplitHead(rest, "("))

\* C25: an added definition line whose new-file number is in no detected
\* function's span is reported by one 'added' FunctionChange for a descriptor
\* with the parsed name, start_line that number, end_line start_line + 3 and
\* no class, once per dedup key; an added definition line inside a detected
\* function's span produces no synthesized FunctionChange.
FallbackSynthesis ==
    pc = "mapped" =>
        /\ \A k \in 1..Len(hunks) : \A i \in 1..Len(hunks[k].lines) :
              IsAddedDefinition(hunks[k], i) =>
                  LET n == NewFileNumber(hunks[k], i)
                      key == <<DefinedName(hunks[k], i), None, n>>
                      reports == {c \in 1..Len(function_changes) :
                                     FunctionKey(function_changes[c].function) = key}
                  IN  IF InDetectedSpan(n)
                      THEN \A c \in 1..Len(function_changes) :
                              function_changes[c].function.start_line = n
                                  => IsDetected(function_changes[c])
                      ELSE /\ Cardinality(reports) = 1
                           /\ \A c \in reports :
                                 /\ function_changes[c].change_type = "added"
                                 /\ function_changes[c].function.end_line = n + 3
                                 /\ function_changes[c].function.class_name = None
                                 /\ ~ IsDetected(function_changes[c])
        /\ \A c \in 1..Len(function_changes) :
              ~ IsDetected(function_changes[c]) =>
                  \E k \in 1..Len(hunks) : \E i \in 1..Len(hunks[k].lines) :
                      /\ IsAddedDefinition(hunks[k], i)
                      /\ function_changes[c].function.start_line
                            = NewFileNumber(hunks[k], i)
                      /\ function_changes[c].function.name = DefinedName(hunks[k], i)

\* two hunks add the same definition at the same number outside the only
\* detected function, and one synthesized change reports it
FallbackSynthesisWitness ==
    /\ pc = "mapped"
    /\ Len(hunks) = 2
    /\ Len(functions) = 1
    /\ hunks[1].lines = <<PlusDefLine>>
    /\ hunks[2].lines = <<PlusDefLine>>
    /\ hunks[1].new_start = hunks[2].new_start
    /\ ~ InDetectedSpan(hunks[1].new_start)
    /\ Cardinality({c \in 1..Len(function_changes) :
                       ~ IsDetected(function_changes[c])}) = 1

\* the diff that holds one section of a text alone, without the newline
\* that separated it from the next section
SectionAlone(section) ==
    DiffGitMarker \o
        (IF EndsWith(section, <<"\n">>)
         THEN SubSeq(section, 1, Len(section) - 1) ELSE section)

\* the EnhancedFileChange a call computes for a section alone, with the
\* content file_env the repository holds for it
EnhancedAlone(section, file_env) ==
    _enhance_file_change(parse_diff_output(SectionAlone(section))[1], file_env).value

UnwalkedNeverReported ==
    pc = "mapped" =>
        \A j \in 1..Len(functions) :
            Span(functions[j]) \cap (AllAdded \cup AllContext) = {}
                => ChangesOf(functions[j]) = {}

\* C28: for every hunk the numbers the fallback scanner gives the '+' lines
\* are, line by line, the numbers the walk records as added, also when the
\* hunk holds lines without '+', '-' or ' ' prefix.
ScannerWalkAgree ==
    pc = "mapped" =>
        \A k \in 1..Len(hunks) :
            LET added_content == AddedContent(hunks[k].new_start, hunks[k].lines)
                added_lines == Sorted(_extract_changed_lines_detailed(hunks[k])[1])
            IN  /\ Len(added_content) = Len(added_lines)
                /\ \A i \in 1..Len(added_content) :
                      added_content[i].line_num = added_lines[i]

\* C29: for a hunk whose '+' and ' ' lines number new_count, the numbers the
\* walk records as added or context are exactly
\* new_start .. new_start + new_count - 1, each recorded for one line and in
\* one of the two sets, also when lines without prefix stand between them.
NewRangeExact ==
    pc = "mapped" =>
        \A k \in 1..Len(hunks) :
            LET h == hunks[k]
                t == _extract_changed_lines_detailed(h)
            IN  CountPrefixed(h.lines, {"+", " "}) = h.new_count =>
                    /\ t[1] \cup t[3] = h.new_start .. h.new_start + h.new_count - 1
                    /\ t[1] \cap t[3] = {}
                    /\ Cardinality(t[1]) = CountPrefixed(h.lines, {"+"})
                    /\ Cardinality(t[3]) = CountPrefixed(h.lines, {" "})

\* the position of the function of change c in the detector's list
DetectedPosition(c) ==
    CHOOSE j \in 1..Len(functions) : functions[j] = function_changes[c].function

\* the first hunk with an added definition line that has the number and
\* the name of the synthesized function of change c
FirstHunkOf(c) ==
    CHOOSE k \in 1..Len(hunks) :
        /\ \E i \in 1..Len(hunks[k].lines) :
              /\ IsAddedDefinition(hunks[k], i)
              /\ NewFileNumber(hunks[k], i) = function_changes[c].function.start_line
              /\ DefinedName(hunks[k], i) = function_changes[c].function.name
        /\ \A m \in 1..k - 1 : \A i \in 1..Len(hunks[m].lines) :
              ~ /\ IsAddedDefinition(hunks[m], i)
                /\ NewFileNumber(hunks[m], i) = function_changes[c].function.start_line
                /\ DefinedName(hunks[m], i) = function_changes[c].function.name

\* C30: function_changes lists the changes of detected functions first, in
\* detector order (ascending start_line), then the synthesized changes in
\* hunk order and, within a hunk, by ascending line number.
ChangesOrdered ==
    pc = "mapped" =>
        \A c, d \in 1..Len(function_changes) :
            c < d =>
                /\ ~ IsDetected(function_changes[c]) => ~ IsDetected(function_changes[d])
                /\ (IsDetected(function_changes[c]) /\ IsDetected(function_changes[d])) =>
                      /\ DetectedPosition(c) < DetectedPosition(d)
                      /\ function_changes[c].function.start_line
                            < function_changes[d].function.start_line
                /\ (~ IsDetected(function_changes[c]) /\ ~ IsDetected(function_changes[d])) =>
                      \/ FirstHunkOf(c) < FirstHunkOf(d)
                      \/ /\ FirstHunkOf(c) = FirstHunkOf(d)
                         /\ function_changes[c].function.start_line
                               < function_changes[d].function.start_line

\* a detected function's change followed by a synthesized one, or two
\* synthesized changes in hunk order against the order of their lines
ChangesOrderedWitness ==
    /\ pc = "mapped"
    /\ Len(function_changes) = 2
    /\ \/ /\ IsDetected(function_changes[1])
          /\ ~ IsDetected(function_changes[2])
          /\ function_changes[2].function.start_line
                < function_changes[1].function.start_line
       \/ /\ ~ IsDetected(function_changes[1])
          /\ ~ IsDetected(function_changes[2])
          /\ FirstHunkOf(1) < FirstHunkOf(2)
          /\ function_changes[2].function.start_line
                < function_changes[1].function.start_line

====
